---------------------------- MODULE Spec2Model ----------------------------
(***************************************************************************)
(* A model of the concurrent load generator of read_trend_simulator.py:    *)
(* the orchestrator thread (query_thread), which checks the table, runs    *)
(* an optional warmup and then the measured runs, each with its own task   *)
(* queue and pool of worker threads (query_worker), the shared metrics     *)
(* (sample deques, query-type counters, the active-query counter and its   *)
(* trace), and the main thread with its SIGINT handler and its shutdown    *)
(* path.                                                                   *)
(*                                                                         *)
(* Time is abstract.  A deadline, a queue.get timeout or a join timeout is *)
(* an action that may fire whenever the code could be waiting for it; a    *)
(* timestamp is the index of the phase in which it was taken (0 for the    *)
(* warmup, k for measured run k).  The worker threads of one pool are      *)
(* interchangeable, so a pool is a bag of thread states.                   *)
(***************************************************************************)
EXTENDS Integers, Sequences, FiniteSets, Bags, TLC

\* ------------------------------------------------------------- bounds
\* --concurrency is drawn from 0..MaxConcurrency.
MaxConcurrency == 2
\* --runs is drawn from 0..MaxRuns.
MaxRuns == 2
\* The feed loops enqueue at most MaxTasks tasks over a whole benchmark; a
\* phase begins only while a task is left for it.
MaxTasks == 2
\* --throughput-window of a benchmark, in units of the clock (the length of
\* a phase)
DefaultWindow == 1
\* In the specifications of the single functions: --throughput-window is
\* drawn from 0..MaxWindow, the registry holds at most MaxStamps query
\* timestamps, and throughput_calculator takes at most MaxSamples samples.
MaxWindow == 2
MaxStamps == 2
MaxSamples == 1
\* In the specification of the statistics: a run has at most MaxLatencies
\* samples and follows at most MaxEarlierRuns runs that have their RunResult.
MaxLatencies == 3
MaxEarlierRuns == 2
\* In the specification of the feed-loop sleep: --concurrency is drawn from
\* 1..MaxLevel.
MaxLevel == 6
\* In the specification of the web control panel: the start requests that
\* the server handles, and the lines that a benchmark process writes.
MaxRequests == 2
MaxOutput == 1

\* ---------------------------------------------------------- constants
QueryTypes == {"simple", "spatial", "complex"}
STOP == "STOP"
\* latency is None, modelled as the empty tuple, or a number of ms <<l>>
None == << >>
Latencies == {5}
\* the latencies (ms) and the throughputs (queries per unit of time) of the
\* specification of the statistics
StatLatencies == {5, 20, 100}
Throughputs == {10, 20}
\* the values of --interval (ms) of the specification of the feed-loop sleep
Intervals == {-1000, 0, 5, 10, 15, 20, 100, 1000, 2000, 5000}
\* the 0.01 s under which the feed loop of a run does not sleep, in ms
SleepFloor == 10
\* the benchmark_type of the form of a start request; any other value is
\* handled as 'mixed'
BenchmarkTypes == {"read", "write", "mixed"}
\* the start requests, in the order of their arrival
Requests == 1..MaxRequests
\* phase 0 is the warmup, phase k >= 1 is measured run k
WarmupPhase == 0
Phases == 0..MaxRuns

VARIABLES
    running,               \* global stop flag
    table_exists,
    in_warmup,
    current_run,
    total_runs,            \* query_thread local
    concurrency,           \* query_thread local
    benchmark_results,     \* list of RunResult dicts
    timestamps, latencies, errors, query_timestamps,
    query_types_executed,
    throughput_timestamps, throughput_values,
    thr_pc,                \* where the thread of throughput_calculator is
    active_queries, concurrency_timestamps, concurrency_values,
    qt_pc,                 \* where query_thread is
    phase,                 \* the phase query_thread is in (the clock)
    task_queue,            \* phase -> items of that phase's Queue
    unfinished_tasks,      \* phase -> Queue.unfinished_tasks
    workers,               \* bag of live worker threads
    dispatched,            \* tasks enqueued so far (bounded by MaxTasks)
    valid_latencies,       \* query_thread local
    sleep_time,            \* query_thread: what the feed loop last slept, as
                           \* <<a rational of milliseconds>>, else << >>
    interval,              \* --interval in milliseconds as <<ms>>; << >> where
                           \* only its sign matters (see WarmupFeedRaises)
    current_benchmark,     \* web_ui: the global dict of the benchmark state
    requests,              \* web_ui: per start request, where its handler is
    runners,               \* web_ui: per start request, where its thread of
                           \* run_benchmark is
    saved,                 \* run_results of the files written so far
    throughput_window,     \* global set from --throughput-window
    headless,              \* --headless
    main_pc,               \* where the main thread is
    exit_status,           \* None while the process runs, then <<status>>
    printed,               \* the summaries that print_detailed_summary printed
    \* history variables, read only by the properties
    sample_origin,         \* per stored sample: phase whose task produced it
    sigint_run,            \* the measured run that SIGINT found in progress
                           \* with a valid latency in the store, else 0
    completed_runs,        \* measured runs that ended with running still true
    increments, decrements \* number of counter increments / decrements

vars == <<running, table_exists, in_warmup, current_run, total_runs,
          concurrency, benchmark_results, timestamps, latencies, errors,
          query_timestamps, query_types_executed, throughput_timestamps,
          throughput_values, thr_pc, active_queries,
          concurrency_timestamps, concurrency_values, qt_pc, phase,
          task_queue, unfinished_tasks, workers, dispatched,
          valid_latencies, sleep_time, interval, current_benchmark,
          requests, runners, saved, throughput_window,
          headless, main_pc,
          exit_status, printed, sample_origin, sigint_run, completed_runs,
          increments, decrements>>

sampleVars == <<timestamps, latencies, errors, query_timestamps, sample_origin>>
throughputVars == <<throughput_timestamps, throughput_values, thr_pc>>
traceVars == <<concurrency_timestamps, concurrency_values>>
counterVars == <<active_queries, increments, decrements>>
queueVars == <<task_queue, unfinished_tasks, dispatched>>
configVars == <<total_runs, concurrency, throughput_window, headless,
                interval>>
mainVars == <<main_pc, exit_status, printed, sigint_run, completed_runs>>
webVars == <<current_benchmark, requests, runners>>
simulatorVars == <<running, table_exists, in_warmup, current_run,
                   benchmark_results, sampleVars, query_types_executed,
                   throughputVars, counterVars, traceVars, qt_pc, phase,
                   queueVars, workers, valid_latencies, sleep_time, saved,
                   configVars, mainVars>>

\* ------------------------------------------------------------ helpers
Max(a, b) == IF a >= b THEN a ELSE b

RECURSIVE SumSeq(_)
SumSeq(s) == IF s = << >> THEN 0 ELSE Head(s) + SumSeq(Tail(s))

RECURSIVE Copies(_, _)
\* a sequence of n copies of x: the items of n consecutive puts of x
Copies(x, n) == IF n = 0 THEN << >> ELSE <<x>> \o Copies(x, n - 1)

ZeroCounts == [q \in QueryTypes |-> 0]

\* the worker threads of phase p that are alive
Live(p) ==
    BagCardinality([w \in {x \in DOMAIN workers : x.phase = p} |-> workers[w]])

\* the worker threads that are inside execute_query_concurrent
InCall ==
    BagCardinality([w \in {x \in DOMAIN workers : x.pc # "get"} |-> workers[w]])

Put(B, w) == B (+) SetToBag({w})
Take(B, w) == B (-) SetToBag({w})
\* n threads in state w
Pool(w, n) == IF n = 0 THEN EmptyBag ELSE (w :> n)

\* a thread of phase p blocked in task_queue.get; latency is what the last
\* execute_query of the thread returned
IdleWorker(p) == [phase |-> p, pc |-> "get", query_start |-> 0, latency |-> None]

\* web_ui: current_benchmark as the module defines it. None is the empty
\* tuple and a value v is <<v>>; a time stamp is the start request whose
\* handler or thread took it. users, spawn_rate and run_time are copied from
\* the form as type is and are left out.
IdleBenchmark ==
    [running |-> FALSE, type |-> None, read_weight |-> 0, write_weight |-> 0,
     start_time |-> None, end_time |-> None, output |-> << >>,
     results_dir |-> None]

\* web_ui after import: no request received, no thread of run_benchmark
WebIdle ==
    /\ current_benchmark = IdleBenchmark
    /\ requests = [r \in Requests |-> [pc |-> "none", form |-> None,
                                       response |-> None]]
    /\ runners = [r \in Requests |-> "none"]

\* the process runs until the main thread returns: query_thread and the
\* workers are daemon threads and end with it
ProcessAlive == main_pc # "exited"

Init ==
    /\ running = TRUE
    /\ table_exists = FALSE
    /\ in_warmup = FALSE
    /\ current_run = 0
    /\ total_runs = 0
    /\ concurrency = 0
    /\ benchmark_results = << >>
    /\ timestamps = << >>
    /\ latencies = << >>
    /\ errors = << >>
    /\ query_timestamps = << >>
    /\ query_types_executed = ZeroCounts
    /\ throughput_timestamps = << >>
    /\ throughput_values = << >>
    /\ thr_pc = "loop"
    /\ active_queries = 0
    /\ concurrency_timestamps = << >>
    /\ concurrency_values = << >>
    /\ qt_pc = "check_table"
    /\ phase = 0
    /\ task_queue = [p \in Phases |-> << >>]
    /\ unfinished_tasks = [p \in Phases |-> 0]
    /\ workers = EmptyBag
    /\ dispatched = 0
    /\ valid_latencies = << >>
    /\ sleep_time = << >>
    /\ interval = << >>
    /\ WebIdle
    /\ saved = {}
    /\ throughput_window = DefaultWindow
    /\ headless \in BOOLEAN
    /\ main_pc = "wait"
    /\ exit_status = None
    /\ printed = << >>
    /\ sample_origin = << >>
    /\ sigint_run = 0
    /\ completed_runs = 0
    /\ increments = 0
    /\ decrements = 0


\* ------------------------------------------------- shared metrics
\* calculate_throughput: the number of query timestamps after now - window,
\* divided by the window; the quotient is kept as <<numerator, denominator>>
QInWindow(now, window, qts) ==
    Cardinality({i \in DOMAIN qts : qts[i] > now - window})

CalculateThroughput(now, window, qts) ==
    IF QInWindow(now, window, qts) # 0
    THEN <<QInWindow(now, window, qts), window>>
    ELSE <<0, 1>>

\* q_in_window / float(throughput_window) raises ZeroDivisionError
ThroughputRaises(now, window, qts) ==
    QInWindow(now, window, qts) # 0 /\ window = 0

\* ClearMetrics with a slip: the active-query counter is cleared with its
\* trace
ClearMetricsAndCounter ==
    /\ timestamps' = << >>
    /\ latencies' = << >>
    /\ errors' = << >>
    /\ query_timestamps' = << >>
    /\ throughput_timestamps' = << >>
    /\ throughput_values' = << >>
    /\ concurrency_timestamps' = << >>
    /\ concurrency_values' = << >>
    /\ query_types_executed' = ZeroCounts
    /\ sample_origin' = << >>
    /\ active_queries' = 0
    /\ UNCHANGED <<increments, decrements, thr_pc>>

\* ClearMetrics with a slip: the samples are cleared, the two traces and the
\* query-type counters are left
ClearSamplesOnly ==
    /\ timestamps' = << >>
    /\ latencies' = << >>
    /\ errors' = << >>
    /\ query_timestamps' = << >>
    /\ sample_origin' = << >>
    /\ UNCHANGED <<throughput_timestamps, throughput_values, traceVars,
                   query_types_executed, counterVars, thr_pc>>

\* the lock-protected block that clears the metrics (after the warmup and at
\* the start of every run but the first); active_queries is not part of it
ClearMetrics ==
    /\ timestamps' = << >>
    /\ latencies' = << >>
    /\ errors' = << >>
    /\ query_timestamps' = << >>
    /\ throughput_timestamps' = << >>
    /\ throughput_values' = << >>
    /\ concurrency_timestamps' = << >>
    /\ concurrency_values' = << >>
    /\ query_types_executed' = ZeroCounts
    /\ sample_origin' = << >>
    /\ UNCHANGED <<counterVars, thr_pc>>

KeepMetrics ==
    UNCHANGED <<sampleVars, throughputVars, traceVars, counterVars,
                query_types_executed>>

\* ------------------------------------------------- query_thread
\* check_table_exists found the table, or --create-table was given and
\* initialize_table created it
TableAvailable(found, create_table, created) ==
    found \/ (create_table /\ created)

\* CheckTable with a slip: no return after running = False
CheckTableFallsThrough ==
    /\ ProcessAlive
    /\ qt_pc = "check_table"
    /\ \E found, create_table, created \in BOOLEAN :
          table_exists' = TableAvailable(found, create_table, created)
    /\ running' = (running /\ table_exists')
    /\ qt_pc' = "setup"
    /\ UNCHANGED <<in_warmup, current_run, configVars, webVars, benchmark_results,
                   query_types_executed, phase, queueVars, workers, saved,
                   valid_latencies, sleep_time, sampleVars, throughputVars, traceVars,
                   counterVars, mainVars>>

CheckTable ==
    /\ ProcessAlive
    /\ qt_pc = "check_table"
    /\ \E found, create_table, created \in BOOLEAN :
          table_exists' = TableAvailable(found, create_table, created)
    /\ IF table_exists'
       THEN /\ qt_pc' = "setup"
            /\ UNCHANGED running
       ELSE /\ running' = FALSE
            /\ qt_pc' = "done"
    /\ UNCHANGED <<in_warmup, current_run, configVars, webVars, benchmark_results,
                   query_types_executed, phase, queueVars, workers, saved,
                   valid_latencies, sleep_time, sampleVars, throughputVars, traceVars,
                   counterVars, mainVars>>

\* A Queue of an earlier phase that no live worker holds is unreachable (the
\* name task_queue was rebound when the later phase began): its state is
\* dropped, q[p] becoming `empty'.
Collected(q, empty, ws, ph) ==
    [p \in Phases |->
        IF p < ph /\ ~(\E x \in DOMAIN ws : x.phase = p) THEN empty ELSE q[p]]

\* StartWorkers with a slip: no new Queue, the pool of phase p works on what
\* the phase before left on its queue
StartWorkersOnOldQueue(p, n) ==
    /\ workers' = workers (+) Pool(IdleWorker(p), IF running THEN n ELSE 0)
    /\ task_queue' =
          Collected([task_queue EXCEPT ![p] = task_queue[phase]], << >>,
                    workers', p)
    /\ unfinished_tasks' =
          Collected([unfinished_tasks EXCEPT ![p] = unfinished_tasks[phase]],
                    0, workers', p)

\* task_queue = Queue() and a pool of n threads running query_worker on it,
\* for phase p: a thread that finds running false at its first loop test
\* ends at once
StartWorkers(p, n) ==
    /\ workers' = workers (+) Pool(IdleWorker(p), IF running THEN n ELSE 0)
    /\ task_queue' =
          Collected([task_queue EXCEPT ![p] = << >>], << >>, workers', p)
    /\ unfinished_tasks' =
          Collected([unfinished_tasks EXCEPT ![p] = 0], 0, workers', p)

\* total_runs, current_run, concurrency and, with --warmup > 0, the start of
\* the warmup phase
Setup ==
    /\ ProcessAlive
    /\ qt_pc = "setup"
    /\ \E runs \in 0..MaxRuns, conc \in 0..MaxConcurrency, warmup \in BOOLEAN :
          /\ total_runs' = Max(1, runs)
          /\ concurrency' = Max(1, conc)
          /\ current_run' = 1
          /\ IF warmup
             THEN /\ in_warmup' = TRUE
                  /\ StartWorkers(WarmupPhase, concurrency')
                  /\ qt_pc' = "warmup_start"
             ELSE /\ UNCHANGED <<in_warmup, task_queue, unfinished_tasks, workers>>
                  /\ qt_pc' = "run_loop"
    /\ phase' = WarmupPhase
    /\ KeepMetrics
    /\ UNCHANGED <<running, table_exists, benchmark_results, dispatched, saved,
                   valid_latencies, sleep_time, throughput_window, headless, interval,
                   webVars,
                   mainVars>>

\* Where query_thread is in a phase: at "..._start" the pool has just been
\* started and the feed loop is about to make its first test, at "..._feed"
\* it sleeps between two iterations of the loop.
StartPcs == {"warmup_start", "run_start"}
FeedPcs == {"warmup_feed", "run_feed"}

\* one iteration of a feed loop: a task of a random type is put on the queue
Feed(p) ==
    /\ running
    /\ dispatched < MaxTasks
    /\ \E qtype \in QueryTypes :
          task_queue' = [task_queue EXCEPT ![p] = Append(@, qtype)]
    /\ unfinished_tasks' = [unfinished_tasks EXCEPT ![p] = @ + 1]
    /\ dispatched' = dispatched + 1

\* the feed loop has ended, by the deadline after an iteration or by the stop
\* flag: one STOP per worker
StopWorkers(p) ==
    /\ qt_pc \in FeedPcs \/ ~running
    /\ task_queue' = [task_queue EXCEPT ![p] = @ \o Copies(STOP, concurrency)]
    /\ unfinished_tasks' = [unfinished_tasks EXCEPT ![p] = @ + concurrency]
    /\ UNCHANGED dispatched

\* JoinWorkers with a slip: join() without a timeout, which returns only
\* when every thread of the pool has ended
JoinWithoutTimeout(p) ==
    \A w \in DOMAIN workers : w.phase # p

\* worker.join(timeout=5) over the pool: the joins have ended when every
\* thread of the pool has ended or is still busy with a task (the timeout).
\* A thread blocked in get (timeout 1 s) moves before a join times out.
JoinWorkers(p) ==
    \A w \in DOMAIN workers : w.phase = p => w.pc # "get"

orchestratorFrame ==
    UNCHANGED <<running, table_exists, configVars, webVars, benchmark_results, saved,
                valid_latencies, sleep_time, mainVars>>

WarmupFeed ==
    /\ ProcessAlive
    /\ qt_pc \in {"warmup_start", "warmup_feed"}
    /\ Feed(WarmupPhase)
    /\ qt_pc' = "warmup_feed"
    /\ KeepMetrics
    /\ orchestratorFrame
    /\ UNCHANGED <<in_warmup, current_run, phase, workers>>

\* the first iteration of the warmup feed loop with --interval < 0: the task
\* is put, then time.sleep(args.interval / concurrency) raises ValueError,
\* which nothing catches: the thread of query_thread ends.  (The feed loop
\* of a run sleeps max(0.01, ...) inside try/except/finally.)
WarmupFeedRaises ==
    /\ ProcessAlive
    /\ qt_pc = "warmup_start"
    /\ Feed(WarmupPhase)
    /\ qt_pc' = "feed_raised"
    /\ KeepMetrics
    /\ orchestratorFrame
    /\ UNCHANGED <<in_warmup, current_run, phase, workers>>

WarmupStop ==
    /\ ProcessAlive
    /\ qt_pc \in {"warmup_start", "warmup_feed"}
    /\ StopWorkers(WarmupPhase)
    /\ qt_pc' = "warmup_join"
    /\ KeepMetrics
    /\ orchestratorFrame
    /\ UNCHANGED <<in_warmup, current_run, phase, workers>>

WarmupJoin ==
    /\ ProcessAlive
    /\ qt_pc = "warmup_join"
    /\ JoinWorkers(WarmupPhase)
    /\ qt_pc' = "warmup_clear"
    /\ KeepMetrics
    /\ orchestratorFrame
    /\ UNCHANGED <<in_warmup, current_run, phase, workers, queueVars>>

WarmupClear ==
    /\ ProcessAlive
    /\ qt_pc = "warmup_clear"
    /\ ClearMetrics
    /\ qt_pc' = "warmup_end"
    /\ orchestratorFrame
    /\ UNCHANGED <<in_warmup, current_run, phase, workers, queueVars>>

WarmupEnd ==
    /\ ProcessAlive
    /\ qt_pc = "warmup_end"
    /\ in_warmup' = FALSE
    /\ qt_pc' = "run_loop"
    /\ KeepMetrics
    /\ orchestratorFrame
    /\ UNCHANGED <<current_run, phase, workers, queueVars>>

\* the test of the run loop and, when it passes, the start of a run: the
\* metrics are cleared for every run but the first, then the run's queue and
\* worker pool are created
RunLoop ==
    /\ ProcessAlive
    /\ qt_pc = "run_loop"
    /\ IF current_run <= total_runs /\ running
       THEN /\ dispatched < MaxTasks
            /\ IF current_run > 1 THEN ClearMetrics ELSE KeepMetrics
            /\ StartWorkers(current_run, concurrency)
            /\ phase' = current_run
            /\ qt_pc' = "run_start"
       ELSE /\ qt_pc' = "done"
            /\ KeepMetrics
            /\ UNCHANGED <<phase, task_queue, unfinished_tasks, workers>>
    /\ orchestratorFrame
    /\ UNCHANGED <<in_warmup, current_run, dispatched>>

RunFeed ==
    /\ ProcessAlive
    /\ qt_pc \in {"run_start", "run_feed"}
    /\ Feed(current_run)
    /\ qt_pc' = "run_feed"
    /\ KeepMetrics
    /\ orchestratorFrame
    /\ UNCHANGED <<in_warmup, current_run, phase, workers>>

RunStop ==
    /\ ProcessAlive
    /\ qt_pc \in {"run_start", "run_feed"}
    /\ StopWorkers(current_run)
    /\ qt_pc' = "run_join"
    /\ KeepMetrics
    /\ orchestratorFrame
    /\ UNCHANGED <<in_warmup, current_run, phase, workers>>

RunJoin ==
    /\ ProcessAlive
    /\ qt_pc = "run_join"
    /\ JoinWorkers(current_run)
    /\ qt_pc' = "run_stats"
    /\ KeepMetrics
    /\ orchestratorFrame
    /\ UNCHANGED <<in_warmup, current_run, phase, workers, queueVars>>

\* the latencies that are not None, as numbers
ValidLatencies(lats) ==
    LET valid == SelectSeq(lats, LAMBDA l : l # None)
    IN  [i \in DOMAIN valid |-> valid[i][1]]

\* statistics.mean, rounded down to a whole number
Mean(xs) == SumSeq(xs) \div Len(xs)

\* sorted(xs)
Sorted(xs) == SortSeq(xs, LAMBDA a, b : a < b)

\* Percentile with a slip: the position is taken in the list as it is given
PercentileUnsorted(xs, q) ==
    LET pos == (Len(xs) - 1) * q
        lo == (pos \div 100) + 1
        hi == IF lo < Len(xs) THEN lo + 1 ELSE lo
    IN  <<xs[lo] * 100 + (xs[hi] - xs[lo]) * (pos % 100), 100>>

\* np.percentile(xs, q), by linear interpolation between the two closest
\* ranks of the sorted values (position (n - 1) * q / 100, counted from 0);
\* the value is kept as <<numerator, 100>>
Percentile(xs, q) ==
    LET a == Sorted(xs)
        pos == (Len(a) - 1) * q
        lo == (pos \div 100) + 1
        hi == IF lo < Len(a) THEN lo + 1 ELSE lo
    IN  <<a[lo] * 100 + (a[hi] - a[lo]) * (pos % 100), 100>>

RECURSIVE ISqrtBetween(_, _, _)
\* the largest r in lo..hi with r * r <= n
ISqrtBetween(n, lo, hi) ==
    IF lo >= hi THEN lo
    ELSE LET mid == (lo + hi + 1) \div 2
         IN  IF mid * mid <= n
             THEN ISqrtBetween(n, mid, hi)
             ELSE ISqrtBetween(n, lo, mid - 1)

\* math.sqrt, rounded down to a whole number
ISqrt(n) == ISqrtBetween(n, 0, IF n < 46340 THEN n ELSE 46340)

SumSquares(xs) == SumSeq([i \in DOMAIN xs |-> xs[i] * xs[i]])

\* Stdev with a slip: the population standard deviation (division by n)
PopulationStdev(xs) ==
    LET n == Len(xs)
    IN  ISqrt(((n * SumSquares(xs) - SumSeq(xs) * SumSeq(xs)) * 10000)
              \div (n * n))

\* statistics.stdev(xs) for two values or more, the sample standard deviation
\* (division by n - 1), in hundredths, rounded down
Stdev(xs) ==
    LET n == Len(xs)
    IN  ISqrt(((n * SumSquares(xs) - SumSeq(xs) * SumSeq(xs)) * 10000)
              \div (n * (n - 1)))

RunResult(valid) ==
    [run |-> current_run,
     concurrency |-> concurrency,
     avg_latency_ms |-> Mean(valid),
     p95_latency_ms |-> Percentile(valid, 95),
     p99_latency_ms |-> Percentile(valid, 99),
     stdev_latency_ms |-> IF Len(valid) > 1 THEN Stdev(valid) ELSE 0,
     \* len(valid_latencies) / run_duration, a run lasting one unit of time
     throughput_qps |-> Len(valid),
     valid_count |-> Len(valid),
     error_count |-> Len(errors),
     query_distribution |-> query_types_executed]

\* valid_latencies = [lat for lat in latencies if lat is not None]
CollectStatistics ==
    /\ ProcessAlive
    /\ qt_pc = "run_stats"
    /\ valid_latencies' = ValidLatencies(latencies)
    /\ qt_pc' = "run_result"
    /\ KeepMetrics
    /\ UNCHANGED <<running, table_exists, configVars, webVars, benchmark_results, saved,
                   sleep_time,
                   in_warmup, current_run, phase, workers, queueVars, mainVars>>

\* The comprehension iterates the deque without the lock: when a worker
\* appends a sample meanwhile, the iterator raises RuntimeError (deque
\* mutated during iteration) and query_thread ends with it.
CollectStatisticsRaces ==
    /\ ProcessAlive
    /\ qt_pc = "run_stats"
    /\ ~in_warmup
    /\ \E w \in DOMAIN workers : w.pc = "query"
    /\ qt_pc' = "crashed"
    /\ KeepMetrics
    /\ UNCHANGED <<running, table_exists, configVars, webVars, benchmark_results, saved,
                   valid_latencies, sleep_time, in_warmup, current_run, phase, workers,
                   queueVars, mainVars>>

\* AppendRunResult with a slip: current_run is not incremented
AppendRunResultSameRun ==
    /\ ProcessAlive
    /\ qt_pc = "run_result"
    /\ benchmark_results' =
          IF valid_latencies # << >>
          THEN Append(benchmark_results, RunResult(valid_latencies))
          ELSE benchmark_results
    /\ UNCHANGED current_run
    /\ valid_latencies' = << >>
    /\ completed_runs' = IF running THEN completed_runs + 1 ELSE completed_runs
    /\ qt_pc' = "run_loop"
    /\ KeepMetrics
    /\ UNCHANGED <<running, table_exists, configVars, webVars, saved, in_warmup, phase,
                   workers, queueVars, main_pc, exit_status, printed,
                   sigint_run, sleep_time>>

\* the RunResult of the run that has ended, appended when there is a valid
\* latency, and current_run += 1
AppendRunResult ==
    /\ ProcessAlive
    /\ qt_pc = "run_result"
    /\ benchmark_results' =
          IF valid_latencies # << >>
          THEN Append(benchmark_results, RunResult(valid_latencies))
          ELSE benchmark_results
    /\ current_run' = current_run + 1
    /\ valid_latencies' = << >>
    /\ completed_runs' = IF running THEN completed_runs + 1 ELSE completed_runs
    /\ qt_pc' = "run_loop"
    /\ KeepMetrics
    /\ UNCHANGED <<running, table_exists, configVars, webVars, saved, in_warmup, phase,
                   workers, queueVars, main_pc, exit_status, printed,
                   sigint_run, sleep_time>>

\* ------------------------------------------------- query_worker
\* Queue.task_done: one less unfinished task, or ValueError when there is none
TaskDoneRaises(p) == unfinished_tasks[p] - 1 < 0

TaskDone(p) ==
    IF TaskDoneRaises(p)
    THEN unfinished_tasks
    ELSE [unfinished_tasks EXCEPT ![p] = @ - 1]

\* the thread w has run task_done and is now in state ws
AfterTaskDone(w, ws) ==
    /\ workers' = ws
    /\ unfinished_tasks' = Collected(TaskDone(w.phase), 0, ws, phase)

\* the thread w after an iteration that ended in task_done: it has ended if
\* task_done raised or the loop test finds running false; else it is in get
NextIteration(w) ==
    IF TaskDoneRaises(w.phase) \/ ~running
    THEN Take(workers, w)
    ELSE Put(Take(workers, w), IdleWorker(w.phase))

workerFrame ==
    UNCHANGED <<running, table_exists, in_warmup, current_run, configVars, webVars,
                benchmark_results, qt_pc, phase, dispatched, saved,
                valid_latencies, sleep_time, mainVars>>

\* WorkerStop with a slip: no break, the worker goes on to its next get
WorkerStopGoesOn(w) ==
    /\ w.pc = "get"
    /\ task_queue[w.phase] # << >>
    /\ Head(task_queue[w.phase]) = STOP
    /\ AfterTaskDone(w, NextIteration(w))
    /\ task_queue' = Collected([task_queue EXCEPT ![w.phase] = Tail(@)],
                               << >>, workers', phase)
    /\ KeepMetrics
    /\ workerFrame

\* get returns STOP: break, and task_done in the finally clause
WorkerStop(w) ==
    /\ w.pc = "get"
    /\ task_queue[w.phase] # << >>
    /\ Head(task_queue[w.phase]) = STOP
    /\ AfterTaskDone(w, Take(workers, w))
    /\ task_queue' = Collected([task_queue EXCEPT ![w.phase] = Tail(@)],
                               << >>, workers', phase)
    /\ KeepMetrics
    /\ workerFrame

\* WorkerBegin with a slip: the task is read at the head of the queue and
\* left there
WorkerBeginPeeks(w) ==
    /\ w.pc = "get"
    /\ task_queue[w.phase] # << >>
    /\ Head(task_queue[w.phase]) # STOP
    /\ UNCHANGED task_queue
    /\ query_types_executed' =
          [query_types_executed EXCEPT ![Head(task_queue[w.phase])] = @ + 1]
    /\ active_queries' = active_queries + 1
    /\ increments' = increments + 1
    /\ concurrency_timestamps' = Append(concurrency_timestamps, phase)
    /\ concurrency_values' = Append(concurrency_values, active_queries')
    /\ workers' = Put(Take(workers, w),
                      [phase |-> w.phase, pc |-> "query", query_start |-> phase,
                       latency |-> None])
    /\ UNCHANGED <<sampleVars, throughputVars, decrements, unfinished_tasks>>
    /\ workerFrame

\* get returns a task: its type is counted, and execute_query_concurrent
\* increments the counter and starts the query
WorkerBegin(w) ==
    /\ w.pc = "get"
    /\ task_queue[w.phase] # << >>
    /\ Head(task_queue[w.phase]) # STOP
    /\ task_queue' = [task_queue EXCEPT ![w.phase] = Tail(@)]
    /\ query_types_executed' =
          [query_types_executed EXCEPT ![Head(task_queue[w.phase])] = @ + 1]
    /\ active_queries' = active_queries + 1
    /\ increments' = increments + 1
    /\ concurrency_timestamps' = Append(concurrency_timestamps, phase)
    /\ concurrency_values' = Append(concurrency_values, active_queries')
    /\ workers' = Put(Take(workers, w),
                      [phase |-> w.phase, pc |-> "query", query_start |-> phase,
                       latency |-> None])
    /\ UNCHANGED <<sampleVars, throughputVars, decrements, unfinished_tasks>>
    /\ workerFrame

\* the lock-protected block after execute_query has returned (latency, error)
RecordSample(w, latency) ==
    IF in_warmup
    THEN UNCHANGED <<sampleVars, throughputVars>>
    ELSE /\ timestamps' = Append(timestamps, phase)
         /\ query_timestamps' = Append(query_timestamps, w.query_start)
         /\ latencies' = Append(latencies, latency)
         /\ sample_origin' = Append(sample_origin, w.phase)
         /\ IF latency # None
            THEN /\ throughput_timestamps' = Append(throughput_timestamps, phase)
                 /\ throughput_values' =
                       Append(throughput_values,
                              CalculateThroughput(phase, throughput_window,
                                                  query_timestamps'))
                 /\ UNCHANGED <<errors, thr_pc>>
            ELSE /\ errors' = Append(errors, <<phase, "error">>)
                 /\ UNCHANGED throughputVars

\* execute_query returns a latency or (None, error)
WorkerQueryReturns(w) ==
    /\ w.pc = "query"
    /\ \E latency \in {None} \cup {<<l>> : l \in Latencies} :
          /\ RecordSample(w, latency)
          /\ workers' = Put(Take(workers, w),
                            [w EXCEPT !.pc = "finally", !.latency = latency])
    /\ UNCHANGED <<query_types_executed, traceVars, counterVars,
                   task_queue, unfinished_tasks>>
    /\ workerFrame

\* DecrementActive with a slip: the decrement sits inside the block that
\* records the sample, which the warmup skips
DecrementUnlessWarmup ==
    IF in_warmup
    THEN UNCHANGED <<active_queries, decrements, traceVars>>
    ELSE /\ active_queries' = active_queries - 1
         /\ decrements' = decrements + 1
         /\ concurrency_timestamps' = Append(concurrency_timestamps, phase)
         /\ concurrency_values' = Append(concurrency_values, active_queries')

\* DecrementActive with a slip: the value is appended before the decrement
DecrementAppendsOldValue ==
    /\ active_queries' = active_queries - 1
    /\ decrements' = decrements + 1
    /\ concurrency_timestamps' = Append(concurrency_timestamps, phase)
    /\ concurrency_values' = Append(concurrency_values, active_queries)

\* the finally clause of execute_query_concurrent
DecrementActive ==
    /\ active_queries' = active_queries - 1
    /\ decrements' = decrements + 1
    /\ concurrency_timestamps' = Append(concurrency_timestamps, phase)
    /\ concurrency_values' = Append(concurrency_values, active_queries')

\* the counter is decremented, then task_done in query_worker's finally
\* clause and the loop test
WorkerFinally(w) ==
    /\ w.pc = "finally"
    /\ DecrementActive
    /\ AfterTaskDone(w, NextIteration(w))
    /\ task_queue' = Collected(task_queue, << >>, workers', phase)
    /\ UNCHANGED <<sampleVars, throughputVars, query_types_executed,
                   increments>>
    /\ workerFrame

\* get times out on an empty queue (not while the feed loop of the thread's
\* phase is about to put its first task): queue.Empty is caught, and the
\* finally clause calls task_done although nothing was dequeued
WorkerGetTimeout(w) ==
    /\ w.pc = "get"
    /\ task_queue[w.phase] = << >>
    /\ ~(qt_pc \in StartPcs /\ w.phase = phase /\ running)
    /\ AfterTaskDone(w, NextIteration(w))
    /\ task_queue' = Collected(task_queue, << >>, workers', phase)
    /\ KeepMetrics
    /\ workerFrame

\* a step of one of the live worker threads
SomeWorkerStop == ProcessAlive /\ \E w \in DOMAIN workers : WorkerStop(w)
SomeWorkerBegin == ProcessAlive /\ \E w \in DOMAIN workers : WorkerBegin(w)
SomeWorkerQueryReturns == ProcessAlive /\ \E w \in DOMAIN workers : WorkerQueryReturns(w)
SomeWorkerFinally == ProcessAlive /\ \E w \in DOMAIN workers : WorkerFinally(w)
SomeWorkerGetTimeout == ProcessAlive /\ \E w \in DOMAIN workers : WorkerGetTimeout(w)

\* ------------------------------------------------- main
\* the field f of every run result
Column(results, f) == [i \in DOMAIN results |-> results[i][f]]

\* statistics.median, as <<numerator, 2>>
Median(xs) ==
    LET a == Sorted(xs)
        n == Len(a)
    IN  IF n % 2 = 1
        THEN <<2 * a[(n + 1) \div 2], 2>>
        ELSE <<a[n \div 2] + a[(n \div 2) + 1], 2>>

\* calculate_summary_metrics: throughput_summary and latency_summary (the
\* p95 summary and the per-query-type throughput are left out).  A mean is
\* kept as <<sum, n>>; stdev and cv_percent are in hundredths, rounded down.
Summary(xs) ==
    [mean |-> <<SumSeq(xs), Len(xs)>>,
     median |-> Median(xs),
     min |-> Sorted(xs)[1],
     max |-> Sorted(xs)[Len(xs)],
     stdev |-> IF Len(xs) > 1 THEN Stdev(xs) ELSE 0]

\* statistics.stdev(xs) / statistics.mean(xs) * 100
ThroughputCv(xs) ==
    IF Len(xs) > 1 THEN (Stdev(xs) * 100 * Len(xs)) \div SumSeq(xs) ELSE 0

CalculateSummaryMetrics ==
    [throughput_summary |->
        Summary(Column(benchmark_results, "throughput_qps")),
     cv_percent |-> ThroughputCv(Column(benchmark_results, "throughput_qps")),
     latency_summary |->
        Summary(Column(benchmark_results, "avg_latency_ms"))]

\* SaveBenchmarkResults with a slip: the summary is computed for one run too
SaveAlwaysSummarizes ==
    saved' = IF benchmark_results = << >>
             THEN saved
             ELSE saved \cup
                  {[run_results |-> benchmark_results,
                    summary_metrics |->
                       IF Len(benchmark_results) >= 1
                       THEN <<CalculateSummaryMetrics>>
                       ELSE << >>]}

\* save_benchmark_results: a file with the run results, unless there are
\* none; summary_metrics is {} (here << >>) unless there are two runs or more
SaveBenchmarkResults ==
    saved' = IF benchmark_results = << >>
             THEN saved
             ELSE saved \cup
                  {[run_results |-> benchmark_results,
                    summary_metrics |->
                       IF Len(benchmark_results) > 1
                       THEN <<CalculateSummaryMetrics>>
                       ELSE << >>]}

\* print_detailed_summary, called by main when there are two runs or more:
\* nothing is printed for one run or none
PrintDetailedSummary ==
    printed' = IF Len(benchmark_results) > 1 /\ ~(Len(benchmark_results) <= 1)
               THEN Append(printed, CalculateSummaryMetrics)
               ELSE printed

\* where query_thread is while a measured run is in progress
RunPcs == {"run_start", "run_feed", "run_join", "run_stats", "run_result"}

\* signal_handler, run by the main thread on SIGINT while the benchmark is
\* running: the stop flag, a save, and without --headless plt.close('all'),
\* which makes plt.show return into the finally clause of main (where
\* running = False changes nothing any more)
Interrupt ==
    /\ main_pc = "wait"
    /\ running
    /\ running' = FALSE
    /\ SaveBenchmarkResults
    /\ main_pc' = IF headless THEN "wait" ELSE "join"
    /\ sigint_run' = IF qt_pc \in RunPcs /\ ValidLatencies(latencies) # << >>
                     THEN current_run
                     ELSE 0
    /\ KeepMetrics
    /\ UNCHANGED <<table_exists, in_warmup, current_run, configVars, webVars,
                   benchmark_results, qt_pc, phase, queueVars, workers,
                   valid_latencies, sleep_time, exit_status, printed, completed_runs>>

\* the thread of query_thread has ended, by a return or by an exception
QtEnded == qt_pc \in {"done", "crashed", "feed_raised"}

\* with --headless main waits in qt.join() until query_thread has ended;
\* then the finally clause sets running = False
MainQtJoined ==
    /\ main_pc = "wait"
    /\ headless
    /\ QtEnded
    /\ running' = FALSE
    /\ main_pc' = "join"
    /\ KeepMetrics
    /\ UNCHANGED <<table_exists, in_warmup, current_run, configVars, webVars,
                   benchmark_results, qt_pc, phase, queueVars, workers,
                   valid_latencies, sleep_time, saved, exit_status, printed,
                   sigint_run, completed_runs>>

\* without --headless main waits in plt.show() until the window is closed;
\* then the finally clause sets running = False
CloseWindow ==
    /\ main_pc = "wait"
    /\ ~headless
    /\ running' = FALSE
    /\ main_pc' = "join"
    /\ KeepMetrics
    /\ UNCHANGED <<table_exists, in_warmup, current_run, configVars, webVars,
                   benchmark_results, qt_pc, phase, queueVars, workers,
                   valid_latencies, sleep_time, saved, exit_status, printed,
                   sigint_run, completed_runs>>

\* the rest of the finally clause: qt.join(2) has returned (query_thread has
\* ended, or the 2 s have passed), the results are saved and summarized, and
\* main returns: the process exits with status 0
MainSaveAndExit ==
    /\ main_pc = "join"
    /\ SaveBenchmarkResults
    /\ PrintDetailedSummary
    /\ main_pc' = "exited"
    /\ exit_status' = <<0>>
    /\ KeepMetrics
    /\ UNCHANGED <<running, table_exists, in_warmup, current_run, configVars, webVars,
                   benchmark_results, qt_pc, phase, queueVars, workers,
                   valid_latencies, sleep_time, sigint_run, completed_runs>>

Next ==
    \/ CheckTable
    \/ Setup
    \/ WarmupFeed
    \/ WarmupFeedRaises
    \/ WarmupStop
    \/ WarmupJoin
    \/ WarmupClear
    \/ WarmupEnd
    \/ RunLoop
    \/ RunFeed
    \/ RunStop
    \/ RunJoin
    \/ CollectStatistics
    \/ CollectStatisticsRaces
    \/ AppendRunResult
    \/ SomeWorkerStop
    \/ SomeWorkerBegin
    \/ SomeWorkerQueryReturns
    \/ SomeWorkerFinally
    \/ SomeWorkerGetTimeout
    \/ Interrupt
    \/ MainQtJoined
    \/ CloseWindow
    \/ MainSaveAndExit

Spec == Init /\ [][Next]_vars

\* ------------------------------------------------- calculate_throughput
\* The function on a given registry.  datetime.now() is the wall clock, and
\* throughput_calculator reads the registry without the lock: a timestamp of
\* the registry may be earlier or later than the `now' of a call.
ThroughputInit ==
    /\ running = TRUE
    /\ table_exists = TRUE
    /\ in_warmup = FALSE
    /\ current_run = 1
    /\ total_runs = 1
    /\ concurrency = 1
    /\ benchmark_results = << >>
    /\ query_timestamps \in UNION {[1..n -> Phases] : n \in 0..MaxStamps}
    /\ timestamps = query_timestamps
    /\ latencies = [i \in DOMAIN query_timestamps |-> None]
    /\ errors = [i \in DOMAIN query_timestamps |-> <<query_timestamps[i], "error">>]
    /\ sample_origin = [i \in DOMAIN query_timestamps |-> 1]
    /\ query_types_executed =
          [ZeroCounts EXCEPT !["simple"] = Len(query_timestamps)]
    /\ throughput_timestamps = << >>
    /\ throughput_values = << >>
    /\ thr_pc = "loop"
    /\ active_queries = 0
    /\ concurrency_timestamps = << >>
    /\ concurrency_values = << >>
    /\ qt_pc = "run_feed"
    /\ phase \in Phases
    /\ task_queue = [p \in Phases |-> << >>]
    /\ unfinished_tasks = [p \in Phases |-> 0]
    /\ workers = EmptyBag
    /\ dispatched = Len(query_timestamps)
    /\ valid_latencies = << >>
    /\ sleep_time = << >>
    /\ interval = << >>
    /\ WebIdle
    /\ saved = {}
    /\ throughput_window \in 0..MaxWindow
    /\ headless = TRUE
    /\ main_pc = "wait"
    /\ exit_status = None
    /\ printed = << >>
    /\ sigint_run = 0
    /\ completed_runs = 0
    /\ increments = Len(query_timestamps)
    /\ decrements = Len(query_timestamps)

\* an iteration of throughput_calculator: calculate_throughput() appends the
\* time and the value, unless the division raises, which ends the thread
ThroughputSample ==
    /\ ProcessAlive
    /\ running
    /\ thr_pc = "loop"
    /\ Len(throughput_values) < MaxSamples
    /\ IF ThroughputRaises(phase, throughput_window, query_timestamps)
       THEN /\ thr_pc' = "raised"
            /\ UNCHANGED <<throughput_timestamps, throughput_values>>
       ELSE /\ throughput_timestamps' = Append(throughput_timestamps, phase)
            /\ throughput_values' =
                  Append(throughput_values,
                         CalculateThroughput(phase, throughput_window,
                                             query_timestamps))
            /\ UNCHANGED thr_pc
    /\ UNCHANGED <<running, table_exists, in_warmup, current_run, configVars, webVars,
                   benchmark_results, sampleVars, query_types_executed,
                   traceVars, counterVars, qt_pc, phase, queueVars, workers,
                   valid_latencies, sleep_time, saved, mainVars>>

\* time.sleep(1) between two samples: the clock advances
ThroughputSleep ==
    /\ thr_pc = "loop"
    /\ phase < MaxRuns
    /\ phase' = phase + 1
    /\ KeepMetrics
    /\ UNCHANGED <<running, table_exists, in_warmup, current_run, configVars, webVars,
                   benchmark_results, qt_pc, queueVars, workers,
                   valid_latencies, sleep_time, saved, mainVars>>

ThroughputNext == ThroughputSample \/ ThroughputSleep

ThroughputSpec == ThroughputInit /\ [][ThroughputNext]_vars

\* ------------------------------------------------- statistics
\* The statistics of a run and of a benchmark as functions of the samples:
\* query_thread is about to compute the statistics of a run whose workers
\* have ended, after runs that appended their RunResult.
\* the RunResult of run k, of tput queries of 5 ms
EarlierResult(k, tput) ==
    [run |-> k,
     concurrency |-> 1,
     avg_latency_ms |-> 5,
     p95_latency_ms |-> <<500, 100>>,
     p99_latency_ms |-> <<500, 100>>,
     stdev_latency_ms |-> 0,
     throughput_qps |-> tput,
     valid_count |-> tput,
     error_count |-> 0,
     query_distribution |-> [ZeroCounts EXCEPT !["simple"] = tput]]

StatsInit ==
    /\ running = TRUE
    /\ table_exists = TRUE
    /\ in_warmup = FALSE
    /\ \E n \in 0..MaxEarlierRuns :
          \E tputs \in [1..n -> Throughputs] :
             benchmark_results = [k \in 1..n |-> EarlierResult(k, tputs[k])]
    /\ current_run = Len(benchmark_results) + 1
    /\ total_runs = current_run
    /\ concurrency = 1
    /\ latencies \in UNION {[1..n -> {None} \cup {<<l>> : l \in StatLatencies}] :
                                n \in 0..MaxLatencies}
    /\ timestamps = [i \in DOMAIN latencies |-> current_run]
    /\ query_timestamps = timestamps
    /\ sample_origin = timestamps
    /\ errors = [i \in 1..(Len(latencies) - Len(ValidLatencies(latencies))) |->
                    <<current_run, "error">>]
    /\ query_types_executed = [ZeroCounts EXCEPT !["simple"] = Len(latencies)]
    /\ throughput_timestamps =
          [i \in DOMAIN ValidLatencies(latencies) |-> current_run]
    /\ throughput_values =
          LET at == SelectSeq([i \in DOMAIN latencies |-> i],
                              LAMBDA i : latencies[i] # None)
          IN  [i \in DOMAIN at |-> <<at[i], DefaultWindow>>]
    /\ thr_pc = "loop"
    /\ active_queries = 0
    /\ concurrency_timestamps = [i \in 1..(2 * Len(latencies)) |-> current_run]
    /\ concurrency_values = [i \in 1..(2 * Len(latencies)) |-> i % 2]
    /\ qt_pc = "run_stats"
    /\ phase = current_run
    /\ task_queue = [p \in Phases |-> << >>]
    /\ unfinished_tasks = [p \in Phases |-> 0]
    /\ workers = EmptyBag
    /\ dispatched = Len(latencies)
    /\ valid_latencies = << >>
    /\ sleep_time = << >>
    /\ interval = << >>
    /\ WebIdle
    /\ saved = {}
    /\ throughput_window = DefaultWindow
    /\ headless = TRUE
    /\ main_pc = "wait"
    /\ exit_status = None
    /\ printed = << >>
    /\ sigint_run = 0
    /\ completed_runs = current_run - 1
    /\ increments = Len(latencies)
    /\ decrements = Len(latencies)

StatsNext ==
    \/ CollectStatistics
    \/ AppendRunResult
    \/ RunLoop
    \/ MainQtJoined
    \/ MainSaveAndExit

StatsSpec == StatsInit /\ [][StatsNext]_vars

\* ------------------------------------------------- the feed-loop sleep
\* A rational is <<numerator, denominator>> with a positive denominator.
RatLess(a, b) == a[1] * b[2] < b[1] * a[2]
\* max(a, b) of Python: the first argument unless the second is larger
RatMax(a, b) == IF RatLess(a, b) THEN b ELSE a
\* a / b for b > 0
RatDiv(a, b) == <<a[1] * b[2], a[2] * b[1]>>

\* RunSleepTime with a slip: the interval is multiplied by the level
RunSleepTimeTimesLevel(ms, c) ==
    RatMax(<<SleepFloor, 1>>,
           <<ms * RatMax(<<1, 1>>, <<c, 2>>)[1], RatMax(<<1, 1>>, <<c, 2>>)[2]>>)

\* sleep_time = max(0.01, args.interval / max(1, concurrency/2)), in ms
RunSleepTime(ms, c) ==
    RatMax(<<SleepFloor, 1>>, RatDiv(<<ms, 1>>, RatMax(<<1, 1>>, <<c, 2>>)))

\* the argument of time.sleep in the warmup: args.interval / concurrency
WarmupSleepTime(ms, c) == RatDiv(<<ms, 1>>, <<c, 1>>)

\* A feed loop has just put a task for a pool of `concurrency' workers and is
\* about to sleep; --interval and --concurrency are drawn.
SleepInit ==
    /\ running = TRUE
    /\ table_exists = TRUE
    /\ in_warmup \in BOOLEAN
    /\ current_run = 1
    /\ total_runs = 1
    /\ concurrency \in 1..MaxLevel
    /\ interval \in {<<ms>> : ms \in Intervals}
    /\ WebIdle
    /\ benchmark_results = << >>
    /\ timestamps = << >>
    /\ latencies = << >>
    /\ errors = << >>
    /\ query_timestamps = << >>
    /\ sample_origin = << >>
    /\ query_types_executed = ZeroCounts
    /\ throughput_timestamps = << >>
    /\ throughput_values = << >>
    /\ thr_pc = "loop"
    /\ active_queries = 0
    /\ concurrency_timestamps = << >>
    /\ concurrency_values = << >>
    /\ qt_pc = IF in_warmup THEN "warmup_sleep" ELSE "run_sleep"
    /\ phase = IF in_warmup THEN WarmupPhase ELSE 1
    /\ task_queue = [p \in Phases |-> IF p = phase THEN <<"simple">> ELSE << >>]
    /\ unfinished_tasks = [p \in Phases |-> IF p = phase THEN 1 ELSE 0]
    /\ workers = Pool(IdleWorker(phase), concurrency)
    /\ dispatched = 1
    /\ valid_latencies = << >>
    /\ sleep_time = << >>
    /\ saved = {}
    /\ throughput_window = DefaultWindow
    /\ headless = TRUE
    /\ main_pc = "wait"
    /\ exit_status = None
    /\ printed = << >>
    /\ sigint_run = 0
    /\ completed_runs = 0
    /\ increments = 0
    /\ decrements = 0

\* time.sleep(args.interval / concurrency) of the warmup feed loop: a
\* negative argument raises ValueError, which ends the thread
WarmupSleep ==
    /\ qt_pc = "warmup_sleep"
    /\ sleep_time' = <<WarmupSleepTime(interval[1], concurrency)>>
    /\ qt_pc' = IF RatLess(sleep_time'[1], <<0, 1>>)
                THEN "feed_raised"
                ELSE "warmup_feed"
    /\ KeepMetrics
    /\ UNCHANGED <<running, table_exists, configVars, webVars, benchmark_results, saved,
                   valid_latencies, mainVars, in_warmup, current_run, phase,
                   workers, queueVars>>

\* the two lines that end an iteration of the feed loop of a run
RunSleep ==
    /\ qt_pc = "run_sleep"
    /\ sleep_time' = <<RunSleepTime(interval[1], concurrency)>>
    /\ qt_pc' = "run_feed"
    /\ KeepMetrics
    /\ UNCHANGED <<running, table_exists, configVars, webVars, benchmark_results, saved,
                   valid_latencies, mainVars, in_warmup, current_run, phase,
                   workers, queueVars>>

SleepNext == WarmupSleep \/ RunSleep

SleepSpec == SleepInit /\ [][SleepNext]_vars

\* ------------------------------------------------- the query-type counters
\* `query_types_executed[query_type] += 1' is executed by the workers
\* without the lock and is not atomic: the item is read, then one more is
\* stored.  Here the two halves are two steps of the worker (in Spec they
\* are one step, WorkerBegin).

\* get returns a task and the worker reads the counter of its type
WorkerLoadCount(w) ==
    /\ w.pc = "get"
    /\ task_queue[w.phase] # << >>
    /\ Head(task_queue[w.phase]) # STOP
    /\ task_queue' = [task_queue EXCEPT ![w.phase] = Tail(@)]
    /\ workers' = Put(Take(workers, w),
                      [phase |-> w.phase, pc |-> "count", query_start |-> 0,
                       latency |-> None,
                       query_type |-> Head(task_queue[w.phase]),
                       loaded |-> query_types_executed[Head(task_queue[w.phase])]])
    /\ UNCHANGED <<sampleVars, throughputVars, traceVars, counterVars,
                   query_types_executed, unfinished_tasks>>
    /\ workerFrame

\* the worker stores what it read plus one; then execute_query_concurrent
\* increments the counter of active queries and starts the query
WorkerStoreCount(w) ==
    /\ w.pc = "count"
    /\ query_types_executed' =
          [query_types_executed EXCEPT ![w.query_type] = w.loaded + 1]
    /\ active_queries' = active_queries + 1
    /\ increments' = increments + 1
    /\ concurrency_timestamps' = Append(concurrency_timestamps, phase)
    /\ concurrency_values' = Append(concurrency_values, active_queries')
    /\ workers' = Put(Take(workers, w),
                      [phase |-> w.phase, pc |-> "query", query_start |-> phase,
                       latency |-> None])
    /\ UNCHANGED <<sampleVars, throughputVars, decrements, task_queue,
                   unfinished_tasks>>
    /\ workerFrame

SomeWorkerLoadCount == ProcessAlive /\ \E w \in DOMAIN workers : WorkerLoadCount(w)
SomeWorkerStoreCount == ProcessAlive /\ \E w \in DOMAIN workers : WorkerStoreCount(w)

\* Run 1 of a benchmark without warmup: the feed loop has put two tasks for
\* a pool of two workers, which have not moved yet.
CountInit ==
    /\ running = TRUE
    /\ table_exists = TRUE
    /\ in_warmup = FALSE
    /\ current_run = 1
    /\ total_runs = 1
    /\ concurrency = 2
    /\ interval = << >>
    /\ WebIdle
    /\ benchmark_results = << >>
    /\ timestamps = << >>
    /\ latencies = << >>
    /\ errors = << >>
    /\ query_timestamps = << >>
    /\ sample_origin = << >>
    /\ query_types_executed = ZeroCounts
    /\ throughput_timestamps = << >>
    /\ throughput_values = << >>
    /\ thr_pc = "loop"
    /\ active_queries = 0
    /\ concurrency_timestamps = << >>
    /\ concurrency_values = << >>
    /\ qt_pc = "run_feed"
    /\ phase = 1
    /\ \E t1, t2 \in QueryTypes :
          task_queue = [p \in Phases |-> IF p = 1 THEN <<t1, t2>> ELSE << >>]
    /\ unfinished_tasks = [p \in Phases |-> IF p = 1 THEN 2 ELSE 0]
    /\ workers = Pool(IdleWorker(1), 2)
    /\ dispatched = 2
    /\ valid_latencies = << >>
    /\ sleep_time = << >>
    /\ saved = {}
    /\ throughput_window = DefaultWindow
    /\ headless = TRUE
    /\ main_pc = "wait"
    /\ exit_status = None
    /\ printed = << >>
    /\ sigint_run = 0
    /\ completed_runs = 0
    /\ increments = 0
    /\ decrements = 0

\* worker.join(timeout=5): a worker between the two halves of its update
\* moves long before a join times out
RunJoinAfterUpdates ==
    /\ ~(\E w \in DOMAIN workers : w.pc = "count")
    /\ RunJoin

\* the rest of run 1
CountNext ==
    \/ SomeWorkerLoadCount
    \/ SomeWorkerStoreCount
    \/ SomeWorkerQueryReturns
    \/ SomeWorkerFinally
    \/ SomeWorkerStop
    \/ SomeWorkerGetTimeout
    \/ RunStop
    \/ RunJoinAfterUpdates
    \/ CollectStatistics
    \/ CollectStatisticsRaces
    \/ AppendRunResult
    \/ RunLoop

CountSpec == CountInit /\ [][CountNext]_vars

\* ------------------------------------------------- the web control panel
\* The form of a start request: benchmark_type, and the text of the users
\* field, which int() accepts or not.
Forms == [benchmark_type : BenchmarkTypes, users : {"100", "many"}]
IsInteger(text) == text = "100"

\* read_weight and write_weight of start_benchmark; for 'mixed' the form
\* fields, here at their defaults
ReadWeight(benchmark_type) ==
    CASE benchmark_type = "read" -> 100
      [] benchmark_type = "write" -> 0
      [] OTHER -> 80
WriteWeight(benchmark_type) ==
    CASE benchmark_type = "read" -> 0
      [] benchmark_type = "write" -> 100
      [] OTHER -> 20

\* a thread of run_benchmark that has not reached its finally clause
ActiveRunners == {r \in Requests : runners[r] \in {"started", "reading"}}

\* start_benchmark, the test of current_benchmark["running"]: the request is
\* answered with the error, or the handler goes on to read the form. The
\* server handles each request in a thread of its own.
StartCheck(r) ==
    /\ requests[r].pc = "none"
    /\ \E form \in Forms :
          requests' = [requests EXCEPT ![r] =
              IF current_benchmark.running
              THEN [pc |-> "done", form |-> <<form>>, response |-> <<"error">>]
              ELSE [pc |-> "checked", form |-> <<form>>, response |-> None]]
    /\ UNCHANGED <<current_benchmark, runners, simulatorVars>>

\* start_benchmark, int(request.form.get('users', 100)) raises ValueError:
\* the request is answered with status 500
StartParseFails(r) ==
    /\ requests[r].pc = "checked"
    /\ ~IsInteger(requests[r].form[1].users)
    /\ requests' = [requests EXCEPT ![r].pc = "done", ![r].response = <<"500">>]
    /\ UNCHANGED <<current_benchmark, runners, simulatorVars>>

\* start_benchmark from the form to the redirect: current_benchmark is
\* rebound to a new dict with running True, and the thread of run_benchmark
\* is started
StartUpdate(r) ==
    /\ requests[r].pc = "checked"
    /\ IsInteger(requests[r].form[1].users)
    /\ current_benchmark' =
          [running |-> TRUE,
           type |-> <<requests[r].form[1].benchmark_type>>,
           read_weight |-> ReadWeight(requests[r].form[1].benchmark_type),
           write_weight |-> WriteWeight(requests[r].form[1].benchmark_type),
           start_time |-> <<r>>, end_time |-> None, output |-> << >>,
           results_dir |-> None]
    /\ runners' = [runners EXCEPT ![r] = "started"]
    /\ requests' = [requests EXCEPT ![r].pc = "done",
                                    ![r].response = <<"redirect">>]
    /\ UNCHANGED simulatorVars

\* the finally clause of run_benchmark, on the dict that the global names now
Finished(benchmark, r) ==
    [benchmark EXCEPT !.running = FALSE, !.end_time = <<r>>]

\* run_benchmark: subprocess.Popen returns, the benchmark process runs
RunnerPopen(r) ==
    /\ runners[r] = "started"
    /\ runners' = [runners EXCEPT ![r] = "reading"]
    /\ UNCHANGED <<current_benchmark, requests, simulatorVars>>

\* run_benchmark: subprocess.Popen raises (no such script); the except
\* clause appends the error, then the finally clause
RunnerPopenRaises(r) ==
    /\ runners[r] = "started"
    /\ runners' = [runners EXCEPT ![r] = "ended"]
    /\ current_benchmark' =
          Finished([current_benchmark EXCEPT !.output = @ \o <<"error">>], r)
    /\ UNCHANGED <<requests, simulatorVars>>

\* run_benchmark: one line of the process is appended to the output; a
\* line "Results will be saved to ..." also sets results_dir
RunnerReadsLine(r) ==
    /\ runners[r] = "reading"
    /\ Len(current_benchmark.output) < MaxOutput
    /\ \E line \in {"line", "results"} :
          current_benchmark' =
              [current_benchmark EXCEPT
                  !.output = @ \o <<line>>,
                  !.results_dir = IF line = "results" THEN <<"dir">> ELSE @]
    /\ UNCHANGED <<requests, runners, simulatorVars>>

\* run_benchmark: the process ends with return_code; a code other than 0
\* is appended to the output, then the finally clause
RunnerProcessExits(r) ==
    /\ runners[r] = "reading"
    /\ runners' = [runners EXCEPT ![r] = "ended"]
    /\ \E return_code \in {0, 1} :
          current_benchmark' =
              Finished([current_benchmark EXCEPT !.output =
                           IF return_code # 0 THEN @ \o <<"exit code">> ELSE @],
                       r)
    /\ UNCHANGED <<requests, simulatorVars>>

\* clear_output while no benchmark is marked as running (otherwise the
\* request is answered with an error and nothing changes)
ClearOutput ==
    /\ ~current_benchmark.running
    /\ current_benchmark.output # << >>
    /\ current_benchmark' = [current_benchmark EXCEPT !.output = << >>]
    /\ UNCHANGED <<requests, runners, simulatorVars>>

SomeStartCheck == \E r \in Requests : StartCheck(r)
SomeStartParseFails == \E r \in Requests : StartParseFails(r)
SomeStartUpdate == \E r \in Requests : StartUpdate(r)
SomeRunnerPopen == \E r \in Requests : RunnerPopen(r)
SomeRunnerPopenRaises == \E r \in Requests : RunnerPopenRaises(r)
SomeRunnerReadsLine == \E r \in Requests : RunnerReadsLine(r)
SomeRunnerProcessExits == \E r \in Requests : RunnerProcessExits(r)

WebNext ==
    \/ SomeStartCheck
    \/ SomeStartParseFails
    \/ SomeStartUpdate
    \/ SomeRunnerPopen
    \/ SomeRunnerPopenRaises
    \/ SomeRunnerReadsLine
    \/ SomeRunnerProcessExits
    \/ ClearOutput

WebSpec == Init /\ [][WebNext]_vars

\* ------------------------------------------------- scheduling
\* a step of the thread of query_thread
OrchestratorStep ==
    \/ CheckTable
    \/ Setup
    \/ WarmupFeed
    \/ WarmupFeedRaises
    \/ WarmupStop
    \/ WarmupJoin
    \/ WarmupClear
    \/ WarmupEnd
    \/ RunLoop
    \/ RunFeed
    \/ RunStop
    \/ RunJoin
    \/ CollectStatistics
    \/ CollectStatisticsRaces
    \/ AppendRunResult

\* task_queue.get(timeout=1.0) returns, with an item or with queue.Empty
GetReturns == SomeWorkerStop \/ SomeWorkerBegin \/ SomeWorkerGetTimeout

\* The threads are scheduled: query_thread takes its next step, and a get
\* returns within its timeout.  Nothing is assumed of a query (a worker may
\* stay in execute_query for ever) nor of the main thread.
LiveSpec == Spec /\ WF_vars(OrchestratorStep) /\ WF_vars(GetReturns)

\* ------------------------------------------------- properties
Last(s) == s[Len(s)]

\* C1: the active-query counter and every value of the concurrency trace are
\* >= 0, and the counter is 0 whenever as many decrements as increments have
\* been performed.
CounterNeverNegative ==
    /\ active_queries >= 0
    /\ \A i \in DOMAIN concurrency_values : concurrency_values[i] >= 0
    /\ increments = decrements => active_queries = 0

\* two queries have run to their decrement, and the trace of the current
\* phase holds such a decrement
CounterBackToZero ==
    /\ increments = 2
    /\ decrements = 2
    /\ concurrency_values # << >>
    /\ Last(concurrency_values) = 0

\* C2: no sample of a task dispatched during the warmup is in the sample
\* store when the statistics of a measured run are computed.
NoWarmupSampleInRunResult ==
    qt_pc = "run_stats" =>
        \A i \in DOMAIN sample_origin : sample_origin[i] # WarmupPhase

\* C3: when the statistics of run k are computed, every sample in the store
\* comes from a task dispatched in run k: no worker of an earlier phase has
\* appended after the reset.
SamplesStayInTheirRun ==
    qt_pc = "run_stats" =>
        \A i \in DOMAIN sample_origin : sample_origin[i] = current_run

\* C4: the active-query counter and every value of the concurrency trace are
\* at most the configured concurrency level.
ActiveAtMostConcurrency ==
    /\ active_queries <= concurrency
    /\ \A i \in DOMAIN concurrency_values : concurrency_values[i] <= concurrency

\* C5: while a phase is dispatching tasks and the stop flag is not set, all
\* the workers started for the phase are alive: neither a get that timed
\* out nor a failed query has ended one.
WorkersStayAlive ==
    (qt_pc \in StartPcs \cup FeedPcs /\ running) =>
        Live(phase) = concurrency

\* C6: every run that ends without the stop flag being set, with all its
\* workers ended, appends exactly one RunResult, which carries the index of
\* the run, whatever the outcomes of its queries.
OneRunResultPerRun ==
    [][(/\ qt_pc = "run_result"
        /\ qt_pc' = "run_loop"
        /\ running
        /\ workers = EmptyBag
        /\ latencies # << >>)
       => /\ Len(benchmark_results') = Len(benchmark_results) + 1
          /\ Last(benchmark_results').run = current_run]_vars

\* C7: when a run ends in which every query failed (all workers have ended),
\* a RunResult of that run is appended, with error_count the number of
\* queries and an average latency of 0.
AllErrorsRunHasResult ==
    [][(/\ qt_pc = "run_result"
        /\ qt_pc' = "run_loop"
        /\ workers = EmptyBag
        /\ valid_latencies = << >>
        /\ latencies # << >>
        /\ \A i \in DOMAIN latencies : latencies[i] = None)
       => /\ Len(benchmark_results') = Len(benchmark_results) + 1
          /\ Last(benchmark_results').run = current_run
          /\ Last(benchmark_results').error_count = Len(latencies)
          /\ Last(benchmark_results').avg_latency_ms = 0]_vars

\* C8: every increment is matched by one decrement when the call ends: the
\* counter, and the increments not yet matched, are the workers that are
\* inside execute_query_concurrent, so the counter is 0 when there is none.
CounterCountsCallsInProgress ==
    /\ active_queries = InCall
    /\ increments - decrements = InCall

\* a query of the warmup has ended and been through its decrement, and
\* no worker is inside a call
CallEndedNoneInProgress ==
    /\ in_warmup
    /\ decrements > 0
    /\ InCall = 0
    /\ workers # EmptyBag

\* C9: when query_thread computes the statistics of a run, after the joins,
\* the counter is 0 and so is the last value of the concurrency trace.
CounterZeroAtEndOfRun ==
    qt_pc = "run_stats" =>
        /\ active_queries = 0
        /\ concurrency_values # << >> => Last(concurrency_values) = 0

\* C10: when the table is neither found nor created, query_thread sets the
\* stop flag and ends at once: no worker, no task, no warmup, no run and no
\* RunResult.
TableFailureEndsAtOnce ==
    (~table_exists /\ qt_pc # "check_table") =>
        /\ qt_pc = "done"
        /\ ~running
        /\ ~in_warmup
        /\ current_run = 0
        /\ workers = EmptyBag
        /\ dispatched = 0
        /\ increments = 0
        /\ benchmark_results = << >>

TableFailureReached ==
    /\ ~table_exists
    /\ qt_pc = "done"
    /\ ~running

\* the model feeds at most MaxTasks tasks: at the loop test that would begin
\* a further run, none is left
TaskBudgetSpent ==
    /\ qt_pc = "run_loop"
    /\ dispatched >= MaxTasks

PartialRunResultSaved ==
    (main_pc = "exited" /\ sigint_run >= 1) =>
        \E i \in DOMAIN benchmark_results :
            benchmark_results[i].run = sigint_run

\* C13: when the table is neither found nor created, the process ends with
\* an exit status that is not 0.
SetupErrorExitsNonZero ==
    (main_pc = "exited" /\ qt_pc = "done" /\ ~table_exists) =>
        exit_status # <<0>>

\* the timestamps of the trailing window of width w that ends at now
InTrailingWindow(now, w, qts) ==
    {i \in DOMAIN qts : now - w < qts[i] /\ qts[i] <= now}

\* C14: the value that calculate_throughput returns at time now, for a window
\* of width w >= 1, is the number of query timestamps t with
\* now - w < t <= now, divided by w: the timestamps outside the window do not
\* count.
ThroughputCountsTrailingWindow ==
    (throughput_values # << >> /\ throughput_window >= 1) =>
        LET qps == Last(throughput_values)
            n == Cardinality(InTrailingWindow(Last(throughput_timestamps),
                                              throughput_window,
                                              query_timestamps))
        IN  qps[1] * throughput_window = n * qps[2]

\* C16: when no query timestamp lies in the trailing window, for every window
\* width from 0 on, calculate_throughput returns 0 and does not raise.
EmptyWindowGivesZero ==
    /\ (/\ throughput_values # << >>
        /\ InTrailingWindow(Last(throughput_timestamps), throughput_window,
                            query_timestamps) = {})
       => Last(throughput_values)[1] = 0
    /\ thr_pc = "raised" =>
          InTrailingWindow(phase, throughput_window, query_timestamps) # {}

\* C15: the p95, the p99 and the standard deviation of a run with one valid
\* latency (or none) are 0.
FewSamplesGiveZero ==
    \A i \in DOMAIN benchmark_results :
        benchmark_results[i].valid_count <= 1 =>
            /\ benchmark_results[i].p95_latency_ms[1] = 0
            /\ benchmark_results[i].p99_latency_ms[1] = 0
            /\ benchmark_results[i].stdev_latency_ms = 0

\* C17: a file saved with exactly one RunResult has an empty summary, and
\* with exactly one RunResult at the end nothing is printed as a summary.
OneRunNoSummary ==
    /\ \A f \in saved :
          Len(f.run_results) = 1 => f.summary_metrics = << >>
    /\ (main_pc = "exited" /\ Len(benchmark_results) = 1) => printed = << >>

\* main has saved a benchmark of exactly one RunResult and returned
OneRunSaved ==
    /\ main_pc = "exited"
    /\ Len(benchmark_results) = 1
    /\ \E f \in saved : Len(f.run_results) = 1

\* C18: for two RunResults with throughputs 10 and 20 the summary has a
\* throughput mean of 15, a standard deviation of 7.07 (sample standard
\* deviation, in hundredths) and a coefficient of variation of 47 %.
SummaryOfTenAndTwenty ==
    \A f \in saved :
        Column(f.run_results, "throughput_qps") = <<10, 20>> =>
            LET m == f.summary_metrics[1]
            IN  /\ m.throughput_summary.mean[1]
                      = 15 * m.throughput_summary.mean[2]
                /\ m.throughput_summary.stdev = 707
                /\ m.cv_percent \in 4700..4799

\* a benchmark of two runs with throughputs 10 and 20 has been saved
TenAndTwentySaved ==
    \E f \in saved :
        /\ Column(f.run_results, "throughput_qps") = <<10, 20>>
        /\ f.summary_metrics # << >>

\* the lists with the elements of xs in every order
Reorderings(xs) ==
    {[i \in DOMAIN xs |-> xs[f[i]]] : f \in Permutations(DOMAIN xs)}

\* C19: the p95 and the p99 stored in a RunResult are those of the valid
\* latencies of the run in any order, computed again.
PercentilesIgnoreOrder ==
    [][(/\ qt_pc = "run_result"
        /\ qt_pc' = "run_loop"
        /\ valid_latencies # << >>)
       => \A xs \in Reorderings(valid_latencies) :
             /\ Last(benchmark_results').p95_latency_ms = Percentile(xs, 95)
             /\ Last(benchmark_results').p99_latency_ms = Percentile(xs, 99)]_vars

\* the RunResult of a run whose valid latencies came in the order 100, 5, 20
UnsortedRunSummarized ==
    /\ qt_pc = "run_loop"
    /\ ValidLatencies(latencies) = <<100, 5, 20>>
    /\ benchmark_results # << >>
    /\ Last(benchmark_results).run = current_run - 1
    /\ Last(benchmark_results).p95_latency_ms = <<9200, 100>>

\* C20: outside the warmup a query that returns an error appends one sample
\* with latency None and one error record, and the worker, once through its
\* finally clauses, is back in get while the stop flag is not set.
FailedQueryRecordedWorkerGoesOn ==
    [][\A w \in DOMAIN workers :
          /\ (/\ w.pc = "query"
              /\ ~in_warmup
              /\ workers' = Put(Take(workers, w),
                                [w EXCEPT !.pc = "finally", !.latency = None]))
             => /\ latencies' = Append(latencies, None)
                /\ Len(errors') = Len(errors) + 1
                /\ Len(timestamps') = Len(timestamps) + 1
          /\ (/\ w.pc = "finally"
              /\ w.latency = None
              /\ running
              /\ decrements' = decrements + 1
              /\ workers' \in {Take(workers, w),
                               Put(Take(workers, w), IdleWorker(w.phase))})
             => workers' = Put(Take(workers, w), IdleWorker(w.phase))]_vars

\* the tasks (not the STOP items) waiting in the queues
RECURSIVE CountTasks(_)
CountTasks(q) ==
    IF q = << >> THEN 0
    ELSE (IF Head(q) = STOP THEN 0 ELSE 1) + CountTasks(Tail(q))

PendingTasks == SumSeq([i \in 1..(MaxRuns + 1) |-> CountTasks(task_queue[i - 1])])

\* C21: every task the dispatcher enqueued is dequeued at most once and
\* executed by one worker, and no STOP is executed as a query: the
\* executions begun so far (one counter increment each) and the tasks still
\* waiting never add up to more than the tasks enqueued, and no query is in
\* progress without its increment.
TaskExecutedAtMostOnce ==
    /\ increments + PendingTasks <= dispatched
    /\ InCall = increments - decrements

\* both workers of a pool execute one task each, at the same time, and no
\* task is left
TwoTasksTwoWorkers ==
    /\ dispatched = 2
    /\ increments = 2
    /\ PendingTasks = 0
    /\ \E w \in DOMAIN workers : w.pc = "query" /\ workers[w] = 2

\* query_thread leaves one of the two blocks that reset the metrics: the one
\* after the warmup, or the one at the start of a run that is not the first
ResetStep ==
    \/ qt_pc = "warmup_clear" /\ qt_pc' = "warmup_end"
    \/ qt_pc = "run_loop" /\ qt_pc' = "run_start" /\ current_run > 1

\* C22: the reset after the warmup and at every run transition clears the
\* sample lists, the error records, the query timestamps, the throughput
\* trace, the concurrency trace and the query-type counters in one step:
\* nothing recorded before the reset is left after it.
ResetClearsEverything ==
    [][ResetStep =>
          /\ timestamps' = << >>
          /\ latencies' = << >>
          /\ errors' = << >>
          /\ query_timestamps' = << >>
          /\ throughput_timestamps' = << >>
          /\ throughput_values' = << >>
          /\ concurrency_timestamps' = << >>
          /\ concurrency_values' = << >>
          /\ query_types_executed' = ZeroCounts]_vars

\* run 2 starts with an empty store after run 1 recorded a valid sample (its
\* RunResult exists)
SecondRunStartsEmpty ==
    /\ qt_pc = "run_start"
    /\ current_run = 2
    /\ Len(benchmark_results) = 1
    /\ latencies = << >>
    /\ concurrency_values = << >>
    /\ query_types_executed = ZeroCounts

\* C23: once save_benchmark_results has written the run results (from
\* signal_handler or from the finally clause of main), the list of run
\* results is not changed any more.
ResultsFrozenOnceSaved ==
    [][saved # {} => benchmark_results' = benchmark_results]_vars

\* C24: every read and write of the shared metrics happens under the mutex,
\* so no thread iterates them while another thread mutates them: the
\* iteration of query_thread over latencies never meets the append of a
\* worker (which would end the thread with RuntimeError).
NoIterationMeetsAnAppend == qt_pc # "crashed"

\* C25: once running is False, a worker that is not inside a query ends at
\* its next step (the dequeue returns or times out, and the loop test
\* fails): no worker begins a query after the stop flag is set.
NoQueryBeginsAfterStop ==
    [][~running => increments' = increments]_vars

\* query_thread leaves the dispatch of a phase: its feed loop has ended
DispatchEnds ==
    /\ qt_pc \in StartPcs \cup FeedPcs
    /\ qt_pc' \notin StartPcs \cup FeedPcs

\* C26: when the dispatch of a phase ends, by the deadline, by the stop flag
\* or by an exception of the task generation, one STOP per worker started
\* for the phase has been put on the queue of the phase.
DispatchEndsWithSentinels ==
    [][DispatchEnds =>
          task_queue'[phase] =
              task_queue[phase] \o Copies(STOP, concurrency)]_vars

\* C27: the dispatcher puts no task on the queue of a phase after the
\* deadline, that is after the first STOP: every queue holds tasks followed
\* by STOP items only.
TasksThenSentinels ==
    \A p \in Phases :
        \A i, j \in DOMAIN task_queue[p] :
            (i < j /\ task_queue[p][i] = STOP) => task_queue[p][j] = STOP

\* the queue of a run holds two tasks followed by the STOP items of the pool
TwoTasksThenSentinels ==
    \E p \in 1..MaxRuns :
        /\ Len(task_queue[p]) = 2 + concurrency
        /\ CountTasks(task_queue[p]) = 2
        /\ Last(task_queue[p]) = STOP

\* C28: a worker increments the counter, runs the query, decrements the
\* counter and only then appends the sample: when a sample is appended, the
\* worker that appends it is inside execute_query_concurrent with its
\* decrement done, so the increments without a decrement are fewer than the
\* workers inside the function.
SampleAppendedAfterDecrement ==
    [][Len(latencies') > Len(latencies) =>
          increments - decrements < InCall]_vars

\* C29: the task queue is bounded: the tasks waiting in a queue stay below a
\* fixed capacity however fast the dispatcher is, so the tasks that the
\* dispatcher may put (MaxTasks here) are never all waiting at once.
QueueNeverHoldsAllTasks ==
    \A p \in Phases : CountTasks(task_queue[p]) < MaxTasks

\* C30: when more than one run is configured and all of them completed, the
\* summary over the run results has been computed when the process exits:
\* it is in the results file and was printed.
SummaryWhenAllRunsComplete ==
    (main_pc = "exited" /\ total_runs > 1 /\ completed_runs = total_runs) =>
        /\ \E file \in saved : file.summary_metrics # << >>
        /\ printed # << >>

\* C31: in every phase that dispatches tasks, the warmup as well as a run,
\* the feed loop sleeps max(floor, interval / f(concurrency)): never less
\* than the floor.
SleepNeverBelowFloor ==
    sleep_time # << >> => ~RatLess(sleep_time[1], <<SleepFloor, 1>>)

TraceFollowsCounter ==
    /\ [](/\ Len(concurrency_timestamps) = Len(concurrency_values)
          /\ concurrency_values # << >> =>
                Last(concurrency_values) = active_queries
          /\ \A i \in 1..(Len(concurrency_values) - 1) :
                concurrency_values[i + 1] - concurrency_values[i] \in {-1, 1})
    /\ [][active_queries' # active_queries =>
            /\ concurrency_values' =
                   Append(concurrency_values, active_queries')
            /\ Len(concurrency_timestamps') =
                   Len(concurrency_timestamps) + 1]_vars

\* two overlapping queries: the trace of the counter is 1, 2, 1, 0
TraceOfTwoOverlappingQueries ==
    /\ concurrency_values = <<1, 2, 1, 0>>
    /\ Len(concurrency_timestamps) = 4
    /\ active_queries = 0

SumCounts(counts) == counts["simple"] + counts["spatial"] + counts["complex"]

\* C34: when the RunResult of a run is created (and no worker is in the
\* middle of an update of the counters), the counters of its query
\* distribution add up to the number of tasks that the workers dequeued in
\* the run, however the updates of the workers interleave.
DistributionCountsDequeuedTasks ==
    [][(/\ qt_pc = "run_result"
        /\ Len(benchmark_results') > Len(benchmark_results)
        /\ ~(\E w \in DOMAIN workers : w.pc = "count"))
       => SumCounts(Last(benchmark_results').query_distribution) =
             dispatched - PendingTasks]_vars

\* where query_thread is after it has put the STOP items of the phase
StoppedPcs ==
    {"warmup_join", "warmup_clear", "warmup_end",
     "run_join", "run_stats", "run_result"}

\* the phase was not interrupted and every worker of its pool has taken one
\* of the STOP items: none is left
AllExitedBySentinel ==
    /\ running
    /\ qt_pc \in StoppedPcs
    /\ \A i \in DOMAIN task_queue[phase] : task_queue[phase][i] # STOP

\* C35: in a phase that is not interrupted, a worker dequeues a STOP only
\* when no task is left in the queue of the phase; and when all the workers
\* of the pool have left by a STOP, the queue is empty, no worker of the
\* phase is left, and every task of the phase has been executed (in the
\* first phase: as many executions begun and ended as tasks dispatched).
SentinelsComeLast ==
    /\ [](AllExitedBySentinel =>
            /\ task_queue[phase] = << >>
            /\ Live(phase) = 0
            /\ in_warmup => (increments = dispatched /\ decrements = dispatched))
    /\ [][\A p \in Phases :
            (/\ running
             /\ task_queue[p] # << >>
             /\ Head(task_queue[p]) = STOP
             /\ task_queue'[p] = Tail(task_queue[p]))
            => CountTasks(task_queue[p]) = 0]_vars

\* both workers of the pool of a run have executed a task and left by STOP
TwoWorkersLeftBySentinel ==
    /\ AllExitedBySentinel
    /\ qt_pc = "run_join"
    /\ concurrency = 2
    /\ dispatched = 2
    /\ increments = 2
    /\ decrements = 2

\* the number of None entries of a list of latencies
Failed(lats) == Len(lats) - Len(ValidLatencies(lats))

\* C36: the sample lists stay aligned: timestamps, latencies and
\* query_timestamps have the same length and there is one error record per
\* None latency; hence the error_count of a RunResult plus its number of
\* valid latencies is the number of samples recorded when it is created.
SampleListsAligned ==
    /\ [](/\ Len(timestamps) = Len(latencies)
          /\ Len(query_timestamps) = Len(latencies)
          /\ Len(errors) = Failed(latencies))
    /\ [][Len(benchmark_results') > Len(benchmark_results) =>
            Last(benchmark_results').error_count
               + Last(benchmark_results').valid_count = Len(latencies)]_vars

\* C37: the list of run results is append-only: a step leaves it as it is
\* or appends one RunResult at the end of an iteration of the run loop
\* (with current_run += 1), the run indices of the list increase strictly,
\* and the list is never longer than the configured number of runs.
RunResultsAppendOnly ==
    /\ [](/\ Len(benchmark_results) <= total_runs
          /\ \A i, j \in DOMAIN benchmark_results :
                i < j => benchmark_results[i].run < benchmark_results[j].run)
    /\ [][\/ benchmark_results' = benchmark_results
          \/ /\ Len(benchmark_results') = Len(benchmark_results) + 1
             /\ SubSeq(benchmark_results', 1, Len(benchmark_results)) =
                   benchmark_results
             /\ current_run' = current_run + 1]_vars

\* two runs, two run results
TwoRunResults ==
    /\ total_runs = 2
    /\ Len(benchmark_results) = 2
    /\ benchmark_results[1].run = 1
    /\ benchmark_results[2].run = 2

\* C38: in the web control panel at most one benchmark runs at a time: a
\* start request whose handler finds current_benchmark.running true is
\* answered with the error and leaves current_benchmark as it is, two
\* requests handled at the same time included, and running is false only
\* when the started benchmark has finished or failed: no thread of
\* run_benchmark is still at work then, and running goes from true to false
\* only in the step in which the last such thread ends.
OneBenchmarkAtATime ==
    /\ [](/\ Cardinality(ActiveRunners) <= 1
          /\ ~current_benchmark.running => ActiveRunners = {})
    /\ [][/\ \A r \in Requests :
                (/\ current_benchmark.running
                 /\ requests[r].pc = "none"
                 /\ requests'[r].pc # "none")
                    => /\ requests'[r].response = <<"error">>
                       /\ current_benchmark' = current_benchmark
          /\ (current_benchmark.running /\ ~current_benchmark'.running)
                => \E r \in ActiveRunners :
                      /\ runners'[r] = "ended"
                      /\ current_benchmark.start_time = <<r>>]_vars

=============================================================================
